---------------------------- MODULE Spec2Model ----------------------------
(***************************************************************************)
(* Model of src/src/bench.cpp: the robust statistics (percentile_of_sorted,*)
(* winsorize, Summary), the Bencher accumulator (bench_n, ns_per_iter) and *)
(* the adaptive sampling loop Bencher::auto_bench.                         *)
(*                                                                         *)
(* Numbers.  A C++ double is modelled as an exact rational (num/den in     *)
(* lowest terms) or one of the non-finite values a division by zero        *)
(* produces (NaN, +inf, -inf); rounding of the binary representation is    *)
(* not modelled.  A uint64_t is four 16-bit limbs, least significant       *)
(* first, so that n *= 2 and n * 5 wrap modulo 2^64 as in the code.        *)
(* Clock readings are whole ticks of TickNs nanoseconds.                   *)
(***************************************************************************)
EXTENDS Integers, Sequences, FiniteSets, TLC

VARIABLES
    \* ---- statistics
    samples,      \* std::vector<double> samples
    pct,          \* the percentile argument of the call under test
    orig,         \* history: samples as first supplied
    prev,         \* history: samples before the last winsorize
    applied,      \* history: number of winsorize calls made on samples
    ret,          \* outcome of the last percentile_of_sorted / Summary call
    summ,         \* Summary<double> summ
    summ5,        \* Summary<double> summ5
    \* ---- class Bencher
    iterations_,  \* uint64_t iterations_
    duration_,    \* std::chrono::nanoseconds duration_, in clock ticks
    bytes_,       \* uint64_t bytes_
    now,          \* the reading of std::chrono::high_resolution_clock, in ticks
    \* ---- bench_n, one call of func per step
    bpc,          \* "idle", or "loop" while bench_n's for loop runs
    bi,           \* bench_n's loop counter i
    bn_start,     \* bench_n's local loop_start
    req,          \* history: the iterations argument of the current bench_n
    calls,        \* history: invocations of func in the current bench_n
    elapsed,      \* history: ticks that passed during the current bench_n
    batches,      \* history: number of bench_n calls completed
    written,      \* history: last byte count func wrote, 0 if none
    wbatch,       \* history: batch in which func last wrote, 0 if none
    got,          \* value benchmark() read through bytes(), -1 before
    \* ---- Bencher::auto_bench
    pc,           \* position in auto_bench
    n,            \* uint64_t n
    loop_start,   \* auto_bench's local loop_start (ticks)
    loop_run,     \* auto_bench's local loop_run (ticks)
    total_run,    \* std::chrono::nanoseconds total_run (ticks)
    idx,          \* number of samples written in the current round
    outcome,      \* "none", "converged" or "budget": which return was taken
    result,       \* the Summary auto_bench returned
    func,         \* the measured callable: its cost per call
    noise,        \* timing disturbance of the current round
    noisy,        \* history: number of disturbed rounds so far
    iter,         \* history: index of the current loop iteration
    n0,           \* history: n on loop entry
    exact,        \* history: no doubling of n has lost a carry
    cum_run       \* history: sum of loop_run over the iterations so far

statVars  == <<samples, pct, orig, prev, applied, ret, summ, summ5>>
benchVars == <<iterations_, duration_, bytes_, now>>
stepVars  == <<bpc, bi, bn_start, req, calls, elapsed, batches, written, wbatch, got>>
loopVars  == <<pc, n, loop_start, loop_run, total_run, idx, outcome, result,
               func, noise, noisy, iter, n0, exact, cum_run>>
vars      == <<statVars, benchVars, stepVars, loopVars>>

---------------------------------------------------------------------------
(* Bounds of the statistics specification *)
MaxLen == 3
MaxVal == 2

---------------------------------------------------------------------------
(* double as exact rational, plus the non-finite values *)

Abs(x) == IF x < 0 THEN -x ELSE x

RECURSIVE GCD(_, _)
GCD(a, b) == IF b = 0 THEN a ELSE GCD(b, a % b)

Fin(nm, dn) ==
    LET g == GCD(Abs(nm), Abs(dn))
        s == IF dn < 0 THEN -1 ELSE 1
    IN  [k |-> "fin", num |-> s * (nm \div g), den |-> s * (dn \div g)]

D(i)    == [k |-> "fin", num |-> i, den |-> 1]
NaN     == [k |-> "nan", num |-> 0, den |-> 1]
PosInf  == [k |-> "inf", num |-> 1, den |-> 1]
NegInf  == [k |-> "inf", num |-> -1, den |-> 1]
\* outcome of a call that ended in a failed assert (abort), not a value
Aborted == [k |-> "abort", num |-> 0, den |-> 1]

IsFin(a) == a.k = "fin"

DAdd(a, b) == Fin(a.num * b.den + b.num * a.den, a.den * b.den)
DSub(a, b) == Fin(a.num * b.den - b.num * a.den, a.den * b.den)
DMul(a, b) ==
    LET g1 == GCD(Abs(a.num), b.den)
        g2 == GCD(Abs(b.num), a.den)
    IN  Fin((a.num \div g1) * (b.num \div g2), (a.den \div g2) * (b.den \div g1))
\* IEEE division: x/0 is NaN for x = 0 and an infinity otherwise
DDiv(a, b) ==
    IF b.num = 0
    THEN IF a.num = 0 THEN NaN ELSE IF a.num > 0 THEN PosInf ELSE NegInf
    ELSE DMul(a, Fin(b.den, b.num))
\* IEEE a < b: false whenever an operand is NaN
DLess(a, b) ==
    CASE a.k = "nan" \/ b.k = "nan" -> FALSE
      [] a.k = "inf" /\ b.k = "inf" -> a.num < b.num
      [] a.k = "inf"                -> a.num < 0
      [] b.k = "inf"                -> b.num > 0
      [] OTHER                      -> a.num * b.den < b.num * a.den
DFloor(a) == a.num \div a.den

\* std::sort on a vector of doubles (ascending): element i goes to the
\* position given by the number of elements that sort before it.  SubSeq
\* over the whole range turns each function into an explicit sequence.
SortAsc(s) ==
    LET len == Len(s)
        pos == SubSeq([i \in 1..len |->
                  Cardinality({j \in 1..len : DLess(s[j], s[i])})
                  + Cardinality({j \in 1..(i - 1) : s[j] = s[i]}) + 1], 1, len)
    IN  SubSeq([p \in 1..len |-> s[CHOOSE i \in 1..len : pos[i] = p]], 1, len)

IsSortedAsc(s) == \A i \in 1..(Len(s) - 1) : ~DLess(s[i + 1], s[i])

---------------------------------------------------------------------------
(* percentile_of_sorted, winsorize *)

percentile_of_sorted(sorted_samples, p) ==
    IF Len(sorted_samples) = 0 THEN Aborted
    ELSE IF Len(sorted_samples) = 1 THEN sorted_samples[1]
    ELSE IF DLess(p, D(0)) THEN Aborted
    ELSE IF DLess(D(100), p) THEN Aborted
    ELSE IF p = D(100) THEN sorted_samples[Len(sorted_samples)]
    ELSE LET length == Len(sorted_samples) - 1
             rank   == DMul(DDiv(p, D(100)), D(length))
             lrank  == DFloor(rank)
             d      == DSub(rank, D(lrank))
             nn     == lrank
             lo     == sorted_samples[nn + 1]
             hi     == sorted_samples[nn + 2]
         IN  DAdd(lo, DMul(DSub(hi, lo), d))

winsorize_nosort(smpls, p) ==
    LET sorted == smpls
        lo == percentile_of_sorted(sorted, p)
        hi == percentile_of_sorted(sorted, DSub(D(100), p))
    IN  IF lo = Aborted \/ hi = Aborted
        THEN [aborted |-> TRUE, samples |-> sorted]
        ELSE [aborted |-> FALSE,
              samples |-> [i \in 1..Len(sorted) |->
                             IF DLess(hi, sorted[i]) THEN hi
                             ELSE IF DLess(sorted[i], lo) THEN lo
                             ELSE sorted[i]]]

winsorize_swapped(smpls, p) ==
    LET sorted == SortAsc(smpls)
        lo == percentile_of_sorted(sorted, p)
        hi == percentile_of_sorted(sorted, DSub(D(100), p))
    IN  IF lo = Aborted \/ hi = Aborted
        THEN [aborted |-> TRUE, samples |-> sorted]
        ELSE [aborted |-> FALSE,
              samples |-> [i \in 1..Len(sorted) |->
                             IF DLess(hi, sorted[i]) THEN lo
                             ELSE IF DLess(sorted[i], lo) THEN hi
                             ELSE sorted[i]]]

winsorize(smpls, p) ==
    LET sorted == SortAsc(smpls)
        lo == percentile_of_sorted(sorted, p)
        hi == percentile_of_sorted(sorted, DSub(D(100), p))
    IN  IF lo = Aborted \/ hi = Aborted
        THEN [aborted |-> TRUE, samples |-> sorted]
        ELSE [aborted |-> FALSE,
              samples |-> [i \in 1..Len(sorted) |->
                             IF DLess(hi, sorted[i]) THEN hi
                             ELSE IF DLess(sorted[i], lo) THEN lo
                             ELSE sorted[i]]]

---------------------------------------------------------------------------
(* Summary<T> *)

calc_max(smpls) ==
    CHOOSE m \in {smpls[i] : i \in 1..Len(smpls)} :
        \A i \in 1..Len(smpls) : ~DLess(m, smpls[i])

calc_min(smpls) ==
    CHOOSE m \in {smpls[i] : i \in 1..Len(smpls)} :
        \A i \in 1..Len(smpls) : ~DLess(smpls[i], m)

calc_percentile(smpls, p) == percentile_of_sorted(SortAsc(smpls), p)

calc_median(smpls) == calc_percentile(smpls, D(50))

calc_median_abs_dev_nosub(smpls) ==
    LET abs_devs == smpls
    IN  DMul(calc_median(abs_devs), Fin(7413, 5000))

calc_median_abs_dev(smpls) ==
    LET med == calc_median(smpls)
        abs_devs == [i \in 1..Len(smpls) |-> DSub(med, smpls[i])]
    IN  DMul(calc_median(abs_devs), Fin(7413, 5000))

\* Summary() : all fields zero
SummaryZero ==
    [max |-> D(0), min |-> D(0), median |-> D(0),
     median_abs_dev |-> D(0), median_abs_dev_pct |-> D(0)]

\* Summary(const std::vector<T>&) on a non-empty vector
Summary(smpls) ==
    LET med == calc_median(smpls)
        mad == calc_median_abs_dev(smpls)
    IN  [max |-> calc_max(smpls),
         min |-> calc_min(smpls),
         median |-> med,
         median_abs_dev |-> mad,
         median_abs_dev_pct |-> DDiv(DMul(D(100), mad), med)]

---------------------------------------------------------------------------
(* uint64_t: four limbs of 16 bits, least significant first *)

Base == 2^16

\* a value 0 <= v < 2^31 as uint64_t
U64(v) == <<v % Base, (v \div Base) % Base, 0, 0>>

IsZero64(x) == x = <<0, 0, 0, 0>>

\* x < 2^31, and then its value
Fits31(x) == x[3] = 0 /\ x[4] = 0 /\ x[2] < 2^15
ToInt(x)  == x[1] + Base * x[2]

\* x * m modulo 2^64 for a small factor m, and the carry the wrap discards
Mul64(x, m) ==
    LET p1 == x[1] * m
        p2 == x[2] * m + p1 \div Base
        p3 == x[3] * m + p2 \div Base
        p4 == x[4] * m + p3 \div Base
    IN  <<p1 % Base, p2 % Base, p3 % Base, p4 % Base>>

Carry64(x, m) ==
    LET p1 == x[1] * m
        p2 == x[2] * m + p1 \div Base
        p3 == x[3] * m + p2 \div Base
        p4 == x[4] * m + p3 \div Base
    IN  p4 \div Base

---------------------------------------------------------------------------
(* class Bencher *)

\* Resolution of the clock: every reading, and so every duration, is a
\* whole number of ticks of TickNs nanoseconds.
TickNs == 1000

\* Bencher's default member initialisers
BencherInit ==
    /\ iterations_ = U64(0)
    /\ duration_ = 0
    /\ bytes_ = 0
    /\ now = 0

\* duration_ / iterations_ on nanosecond counts below 2^31: the quotient is
\* 0 when the divisor does not fit 31 bits
DivNs(ns, iters) == IF Fits31(iters) THEN ns \div ToInt(iters) ELSE 0

\* Bencher::ns_per_iter() for given field values, as a count of nanoseconds
ns_per_iter_of(dur, iters) ==
    IF ~IsZero64(iters)
    THEN DivNs(dur * TickNs, iters)
    ELSE 0

\* Bencher::ns_per_iter() of the object
ns_per_iter == ns_per_iter_of(duration_, iterations_)

LoopCondLe(j, iterations) == j <= iterations

\* bench_n: the condition of  for (uint64_t i = 0; i < iterations; ++i)
LoopCond(j, iterations) == j < iterations

BenchStartClearsBytes(iterations, b) ==
    [iterations_ |-> iterations, duration_ |-> 0, bytes_ |-> 0]

\* bench_n: the fields as its first two statements leave them
BenchStartFields(iterations, b) ==
    [iterations_ |-> iterations, duration_ |-> 0, bytes_ |-> b]

---------------------------------------------------------------------------
(* Bencher::auto_bench *)

NumSamples == 50
WinsorizePct == 5
EstimateTargetNs == 1000000

\* loop_run > std::chrono::milliseconds(100), total_run > std::chrono::seconds(3)
LoopMinTicks == (100 * 1000000) \div TickNs
BudgetTicks  == 3 * (1000000000 \div TickNs)

EstimateN_noclamp(ns) ==
    IF ns = 0 THEN EstimateTargetNs
    ELSE EstimateTargetNs \div (IF ns > 1 THEN ns ELSE 1)

\* the estimate of n from the calibration batch's ns_per_iter().count()
EstimateN(ns) ==
    LET est == IF ns = 0 THEN EstimateTargetNs
               ELSE EstimateTargetNs \div (IF ns > 1 THEN ns ELSE 1)
    IN  IF est = 0 THEN 1 ELSE est

\* the condition under which the loop returns summ5 as converged
Converged(lr, s, s5) ==
    /\ lr > LoopMinTicks
    /\ DLess(s.median_abs_dev_pct, D(1))
    /\ DLess(DSub(s.median, s5.median), s5.median_abs_dev)

\* total_run > 3 s
OverBudget(tr) == tr > BudgetTicks

\* total_run is declared without an initialiser: its first value is
\* indeterminate.  Zero, a negative and a positive value stand for it.
IndeterminateRuns == {0, -2000000, 4000000}

---------------------------------------------------------------------------
(* The measured callable and the clock, as auto_bench sees them *)

MaxIter == 60
MaxNoisy == 1
MaxBatchNs == 2000000000

\* cost: nanoseconds one call takes; warm: extra ticks of the very first call
Callables ==
    {[cost |-> 0, warm |-> 0],
     [cost |-> 1000, warm |-> 0],
     [cost |-> 1000, warm |-> 9],
     [cost |-> 3000, warm |-> 0],
     [cost |-> 1000000, warm |-> 0],
     [cost |-> 2000000, warm |-> 0]}

\* slow: percent by which every call of a round is slower;
\* spikes: number of batches of the round whose calls take twice as long
Quiet == [slow |-> 0, spikes |-> 0]
Noises == {Quiet, [slow |-> 1, spikes |-> 0], [slow |-> 0, spikes |-> 10]}

\* ticks the two winsorize/Summary passes of a round take
StatTicks == {1}

PerCallNs(f, nz, j) ==
    ((f.cost * (100 + nz.slow)) \div 100) * (IF j <= nz.spikes THEN 2 ELSE 1)

\* a batch the model can time: its nanoseconds stay below MaxBatchNs
BatchFeasible(f, nz, j, iters) ==
    IF PerCallNs(f, nz, j) = 0 \/ IsZero64(iters) THEN TRUE
    ELSE Fits31(iters) /\ ToInt(iters) <= MaxBatchNs \div PerCallNs(f, nz, j)

\* ticks the clock advances over a batch of iters calls
BatchTicks(f, nz, j, iters) ==
    IF PerCallNs(f, nz, j) = 0 \/ IsZero64(iters) THEN 0
    ELSE (PerCallNs(f, nz, j) * ToInt(iters)) \div TickNs

\* the disturbance of a round: a quiet one, or one of at most MaxNoisy
\* disturbed rounds of a callable that takes measurable time
PickNoise ==
    \E nz \in Noises :
       /\ nz = Quiet \/ (noisy < MaxNoisy /\ func.cost > 0)
       /\ noise' = nz
       /\ noisy' = IF nz = Quiet THEN noisy ELSE noisy + 1

\* bench_n(iterations, func) as one step, the batch taking d ticks
BenchN(iterations, d) ==
    LET f == BenchStartFields(iterations, bytes_)
    IN  /\ iterations_' = f.iterations_
        /\ bytes_' = f.bytes_
        /\ duration_' = d
        /\ now' = now + d

StatIdle ==
    /\ samples = <<>> /\ pct = D(0) /\ orig = <<>> /\ prev = <<>>
    /\ applied = 0
    /\ ret = [op |-> "none", aborted |-> FALSE, oob |-> FALSE, val |-> D(0)]

StepIdle ==
    /\ bpc = "idle" /\ bi = 0 /\ bn_start = 0 /\ req = 0 /\ calls = 0
    /\ elapsed = 0 /\ batches = 0 /\ written = 0 /\ wbatch = 0 /\ got = -1

LoopIdle ==
    /\ pc = "idle" /\ n = U64(0) /\ loop_start = 0 /\ loop_run = 0
    /\ total_run = 0 /\ idx = 0 /\ outcome = "none" /\ result = SummaryZero
    /\ func = [cost |-> 0, warm |-> 0] /\ noise = Quiet /\ noisy = 0
    /\ iter = 0 /\ n0 = U64(0) /\ exact = TRUE /\ cum_run = 0

\* A Bencher is constructed and auto_bench(func) is entered
Init ==
    /\ BencherInit
    /\ StepIdle
    /\ samples = <<>> /\ pct = D(WinsorizePct) /\ orig = <<>> /\ prev = <<>>
    /\ applied = 0
    /\ ret = [op |-> "none", aborted |-> FALSE, oob |-> FALSE, val |-> D(0)]
    /\ summ = SummaryZero /\ summ5 = SummaryZero
    /\ pc = "calibrate" /\ n = U64(0) /\ loop_start = 0 /\ loop_run = 0
    /\ total_run = 0 /\ idx = 0 /\ outcome = "none" /\ result = SummaryZero
    /\ func \in Callables /\ noise = Quiet /\ noisy = 0
    /\ iter = 0 /\ n0 = U64(0) /\ exact = TRUE /\ cum_run = 0

statFrame == <<pct, orig, prev, applied, ret>>

\* CALIBRATE: n = 1; bench_n(n, func)
Calibrate ==
    /\ pc = "calibrate"
    /\ n' = U64(1)
    /\ BenchN(U64(1), func.cost \div TickNs + func.warm)
    /\ pc' = "estimate"
    /\ UNCHANGED <<samples, summ, summ5, statFrame, stepVars, loop_start,
                   loop_run, total_run, idx, outcome, result, func, noise,
                   noisy, iter, n0, exact, cum_run>>

\* ESTIMATE, and the declarations before the loop
Estimate ==
    /\ pc = "estimate"
    /\ n' = U64(EstimateN(ns_per_iter))
    /\ n0' = n'
    /\ total_run' \in IndeterminateRuns
    /\ samples' = [j \in 1..NumSamples |-> D(0)]
    /\ summ' = SummaryZero /\ summ5' = SummaryZero
    /\ pc' = "loop"
    /\ UNCHANGED <<statFrame, benchVars, stepVars, loop_start, loop_run, idx,
                   outcome, result, func, noise, noisy, iter, exact, cum_run>>

\* top of for (;;): loop_start = now()
LoopTop ==
    /\ pc = "loop"
    /\ loop_start' = now
    /\ idx' = 0
    /\ PickNoise
    /\ pc' = "collect"
    /\ UNCHANGED <<samples, summ, summ5, statFrame, benchVars, stepVars, n,
                   loop_run, total_run, outcome, result, func, iter, n0,
                   exact, cum_run>>

\* one pass of the first for (auto & p : samples): bench_n(n, func)
Collect ==
    /\ pc = "collect" /\ idx < NumSamples
    /\ BatchFeasible(func, noise, idx + 1, n)
    /\ LET d == BatchTicks(func, noise, idx + 1, n)
       IN  /\ BenchN(n, d)
           /\ samples' = [samples EXCEPT ![idx + 1] = D(ns_per_iter_of(d, n))]
    /\ idx' = idx + 1
    /\ UNCHANGED <<summ, summ5, statFrame, stepVars, pc, n, loop_start,
                   loop_run, total_run, outcome, result, func, noise, noisy,
                   iter, n0, exact, cum_run>>

\* winsorize(samples, 5.0); summ = Summary<double>(samples)
Summarize ==
    /\ pc = "collect" /\ idx = NumSamples
    /\ LET w == winsorize(samples, D(WinsorizePct)).samples
       IN  /\ samples' = w
           /\ summ' = Summary(w)
    /\ \E o \in StatTicks : now' = now + o
    /\ idx' = 0
    /\ PickNoise
    /\ pc' = "collect5"
    /\ UNCHANGED <<summ5, statFrame, iterations_, duration_, bytes_, stepVars,
                   n, loop_start, loop_run, total_run, outcome, result, func,
                   iter, n0, exact, cum_run>>

\* one pass of the second for (auto & p : samples): bench_n(n * 5, func)
Collect5 ==
    /\ pc = "collect5" /\ idx < NumSamples
    /\ BatchFeasible(func, noise, idx + 1, Mul64(n, 5))
    /\ LET d == BatchTicks(func, noise, idx + 1, Mul64(n, 5))
       IN  /\ BenchN(Mul64(n, 5), d)
           /\ samples' = [samples EXCEPT
                            ![idx + 1] = D(ns_per_iter_of(d, Mul64(n, 5)))]
    /\ idx' = idx + 1
    /\ UNCHANGED <<summ, summ5, statFrame, stepVars, pc, n, loop_start,
                   loop_run, total_run, outcome, result, func, noise, noisy,
                   iter, n0, exact, cum_run>>

\* winsorize(samples, 5.0); summ5 = Summary<double>(samples);
\* loop_run = now() - loop_start
Summarize5 ==
    /\ pc = "collect5" /\ idx = NumSamples
    /\ LET w == winsorize(samples, D(WinsorizePct)).samples
       IN  /\ samples' = w
           /\ summ5' = Summary(w)
    /\ \E o \in StatTicks :
          /\ now' = now + o
          /\ loop_run' = now + o - loop_start
    /\ pc' = "check"
    /\ UNCHANGED <<summ, statFrame, iterations_, duration_, bytes_, stepVars,
                   n, loop_start, total_run, idx, outcome, result, func,
                   noise, noisy, iter, n0, exact, cum_run>>

\* the convergence test succeeds: return summ5
ReturnConverged ==
    /\ pc = "check"
    /\ Converged(loop_run, summ, summ5)
    /\ result' = summ5
    /\ outcome' = "converged"
    /\ cum_run' = cum_run + loop_run
    /\ pc' = "done"
    /\ UNCHANGED <<statVars, benchVars, stepVars, n, loop_start, loop_run,
                   total_run, idx, func, noise, noisy, iter, n0, exact>>

\* total_run = total_run + loop_run; over 3 s: return summ5
ReturnBudget ==
    /\ pc = "check"
    /\ ~Converged(loop_run, summ, summ5)
    /\ total_run' = total_run + loop_run
    /\ OverBudget(total_run')
    /\ result' = summ5
    /\ outcome' = "budget"
    /\ cum_run' = cum_run + loop_run
    /\ pc' = "done"
    /\ UNCHANGED <<statVars, benchVars, stepVars, n, loop_start, loop_run,
                   idx, func, noise, noisy, iter, n0, exact>>

\* total_run = total_run + loop_run; n *= 2; next iteration
Double ==
    /\ pc = "check"
    /\ iter < MaxIter
    /\ ~Converged(loop_run, summ, summ5)
    /\ total_run' = total_run + loop_run
    /\ ~OverBudget(total_run')
    /\ n' = Mul64(n, 2)
    /\ exact' = (exact /\ Carry64(n, 2) = 0)
    /\ iter' = iter + 1
    /\ cum_run' = cum_run + loop_run
    /\ pc' = "loop"
    /\ UNCHANGED <<statVars, benchVars, stepVars, loop_start, loop_run, idx,
                   outcome, result, func, noise, noisy, n0>>

Next ==
    \/ Calibrate
    \/ Estimate
    \/ LoopTop
    \/ Collect
    \/ Summarize
    \/ Collect5
    \/ Summarize5
    \/ ReturnConverged
    \/ ReturnBudget
    \/ Double

Spec == Init /\ [][Next]_vars

---------------------------------------------------------------------------
(* Specification of one Bencher driven through its public interface:      *)
(* bench_n with one call of func per step, then bytes().                  *)

MaxBatches == 3
MaxIters == 3

\* ticks one call of func may take, and byte counts it may report
CallTicks == {0, 2, 5}
ByteVals == {7, 2000}

BencherSpecInit ==
    /\ BencherInit /\ StepIdle /\ StatIdle /\ LoopIdle
    /\ summ = SummaryZero /\ summ5 = SummaryZero

\* bench_n(iterations, func), up to the first test of the loop condition
BenchBegin ==
    /\ bpc = "idle" /\ got = -1 /\ batches < MaxBatches
    /\ \E iterations \in 0..MaxIters :
          LET f == BenchStartFields(U64(iterations), bytes_)
          IN  /\ iterations_' = f.iterations_
              /\ duration_' = f.duration_
              /\ bytes_' = f.bytes_
              /\ req' = iterations
    /\ bn_start' = now
    /\ bi' = 0 /\ calls' = 0 /\ elapsed' = 0
    /\ bpc' = "loop"
    /\ UNCHANGED <<now, batches, written, wbatch, got, statVars, loopVars>>

\* func(*this); ++i.  The callable is handed the Bencher by mutable
\* reference: a call takes some ticks and may leave a byte count in it.
Invoke ==
    /\ bpc = "loop" /\ LoopCond(bi, req)
    /\ \E dt \in CallTicks :
          /\ now' = now + dt
          /\ elapsed' = elapsed + dt
    /\ \/ UNCHANGED <<bytes_, written, wbatch>>
       \/ \E b \in ByteVals :
             /\ bytes_' = b /\ written' = b /\ wbatch' = batches + 1
    /\ bi' = bi + 1
    /\ calls' = calls + 1
    /\ UNCHANGED <<iterations_, duration_, bpc, bn_start, req, batches, got,
                   statVars, loopVars>>

\* the loop condition fails: duration_ = now() - loop_start
BenchEnd ==
    /\ bpc = "loop" /\ ~LoopCond(bi, req)
    /\ duration_' = now - bn_start
    /\ bpc' = "idle"
    /\ batches' = batches + 1
    /\ UNCHANGED <<iterations_, bytes_, now, bi, bn_start, req, calls, elapsed,
                   written, wbatch, got, statVars, loopVars>>

\* benchmark(): b.bytes() once the batches are over
ReadBytes ==
    /\ bpc = "idle" /\ batches > 0 /\ got = -1
    /\ got' = bytes_
    /\ UNCHANGED <<benchVars, bpc, bi, bn_start, req, calls, elapsed, batches,
                   written, wbatch, statVars, loopVars>>

BencherNext == BenchBegin \/ Invoke \/ BenchEnd \/ ReadBytes

SpecBencher == BencherSpecInit /\ [][BencherNext]_vars

---------------------------------------------------------------------------
(* Specification of the statistics functions: a vector and a percentile   *)
(* argument are drawn from bounded sets, then the functions are applied.  *)

Vals == (-1)..MaxVal

RECURSIVE SeqsOfLen(_)
SeqsOfLen(len) ==
    IF len = 0 THEN {<<>>}
    ELSE {Append(s, D(v)) : s \in SeqsOfLen(len - 1), v \in Vals}

SampleSets == UNION {SeqsOfLen(len) : len \in 0..MaxLen}

OneToHundred == [j \in 1..100 |-> D(j)]

Pcts == {D(-5), D(0), D(5), D(25), D(50), D(100), D(150)}

NoRet == [op |-> "none", aborted |-> FALSE, oob |-> FALSE, val |-> D(0)]

StatInit ==
    /\ \/ samples \in SampleSets /\ pct \in Pcts
       \/ samples = OneToHundred /\ pct = D(5)
    /\ orig = samples
    /\ prev = samples
    /\ applied = 0
    /\ ret = NoRet
    /\ summ = SummaryZero
    /\ summ5 = SummaryZero
    /\ BencherInit /\ StepIdle /\ LoopIdle

\* percentile_of_sorted(samples, pct); the caller has sorted the vector
CallPercentile ==
    /\ ret.op = "none" /\ applied = 0
    /\ IsSortedAsc(samples)
    /\ LET r == percentile_of_sorted(samples, pct)
       IN  ret' = [op |-> "percentile", aborted |-> (r = Aborted), oob |-> FALSE,
                   val |-> IF r = Aborted THEN D(0) ELSE r]
    /\ UNCHANGED <<samples, pct, orig, prev, applied, summ, summ5,
                   benchVars, stepVars, loopVars>>

\* winsorize(samples, pct): sorts and clamps the vector in place
CallWinsorize ==
    /\ ret.op = "none" /\ applied < 2
    /\ LET w == winsorize(samples, pct)
       IN  /\ samples' = w.samples
           /\ IF w.aborted
              THEN ret' = [op |-> "winsorize", aborted |-> TRUE, oob |-> FALSE,
                           val |-> D(0)]
              ELSE ret' = ret
    /\ prev' = samples
    /\ applied' = applied + 1
    /\ UNCHANGED <<pct, orig, summ, summ5, benchVars, stepVars, loopVars>>

\* Summary<double>(samples).  On an empty vector calc_max dereferences the
\* end iterator std::max_element returns, before any assert is reached:
\* the build either traps at that read (oob = FALSE) or reads garbage and
\* goes on to the assert in percentile_of_sorted (oob = TRUE).  Either way
\* no Summary is produced.
CallSummary ==
    /\ ret.op = "none" /\ applied = 0
    /\ IF Len(samples) = 0
       THEN /\ \E g \in BOOLEAN :
                 ret' = [op |-> "summary", aborted |-> TRUE, oob |-> g, val |-> D(0)]
            /\ summ' = summ
       ELSE /\ ret' = [op |-> "summary", aborted |-> FALSE, oob |-> FALSE, val |-> D(0)]
            /\ summ' = Summary(samples)
    /\ UNCHANGED <<samples, pct, orig, prev, applied, summ5,
                   benchVars, stepVars, loopVars>>

StatNext == CallPercentile \/ CallWinsorize \/ CallSummary

SpecStats == StatInit /\ [][StatNext]_vars

---------------------------------------------------------------------------
(* Properties of the statistics functions *)

PctIn0To50 == ~DLess(pct, D(0)) /\ ~DLess(D(50), pct)

AllEqual(s) == \A i \in 1..Len(s) : s[i] = s[1]

\* C6: after winsorize(samples, pct) on a non-empty vector with pct in
\* [0,50] the vector has the same length, is sorted ascending, and each
\* input value v (taken in ascending order) has become lo if v < lo, hi if
\* v > hi and is unchanged otherwise, lo and hi being the pct and 100-pct
\* percentiles of the sorted input; for 1..100 and pct = 5 the values 6..95
\* are unchanged, the lower five are 5.95, the upper five 95.05, and there
\* are still 100 elements.
C6_WinsorizeClamps ==
    (applied = 1 /\ Len(orig) > 0 /\ PctIn0To50) =>
        LET srt == SortAsc(orig)
            lo  == percentile_of_sorted(srt, pct)
            hi  == percentile_of_sorted(srt, DSub(D(100), pct))
        IN  /\ ret.op = "none"
            /\ Len(samples) = Len(orig)
            /\ IsSortedAsc(samples)
            /\ \A i \in 1..Len(orig) :
                  samples[i] = IF DLess(srt[i], lo) THEN lo
                               ELSE IF DLess(hi, srt[i]) THEN hi
                               ELSE srt[i]
            /\ (orig = OneToHundred /\ pct = D(5)) =>
                  /\ Len(samples) = 100
                  /\ \A i \in 6..95 : samples[i] = D(i)
                  /\ \A i \in 1..5 : samples[i] = Fin(119, 20)
                  /\ \A i \in 96..100 : samples[i] = Fin(1901, 20)

\* C6 witness: 1..100 has been winsorized at 5% and both tails were clamped
C6_Witness ==
    /\ applied = 1 /\ orig = OneToHundred /\ pct = D(5)
    /\ samples[1] = Fin(119, 20) /\ samples[100] = Fin(1901, 20)
    /\ samples[50] = D(50)

\* C7 as stated: a second winsorize with the same pct leaves the vector
\* identical to the vector after the first application.
C7_Idempotent_Original ==
    (applied = 2 /\ Len(orig) > 0 /\ PctIn0To50) => samples = prev

\* C7 amended: the second application re-clamps to bounds recomputed on the
\* winsorized vector; the result is identical exactly when those bounds do
\* not cut into it (recomputed lo <= its smallest and recomputed hi >= its
\* largest element), which is always so for pct = 0, for pct = 50 and for a
\* vector whose elements were all equal; it keeps the length and the order.
C7_SecondApplication ==
    (applied = 2 /\ Len(orig) > 0 /\ PctIn0To50) =>
        LET lo2 == percentile_of_sorted(prev, pct)
            hi2 == percentile_of_sorted(prev, DSub(D(100), pct))
        IN  /\ Len(samples) = Len(prev)
            /\ IsSortedAsc(samples)
            /\ (samples = prev) <=>
                  (~DLess(prev[1], lo2) /\ ~DLess(hi2, prev[Len(prev)]))
            /\ (pct = D(0) \/ pct = D(50) \/ AllEqual(orig)) => samples = prev

\* C7 witness: a second application that moved the clamped values inward
C7_Witness ==
    /\ applied = 2 /\ Len(orig) > 1 /\ PctIn0To50
    /\ samples # prev
    /\ DLess(prev[1], samples[1])

\* C8 as stated: Summary of a constant vector (every v, v = 0 included) has
\* max = min = median = v, median_abs_dev = 0 and median_abs_dev_pct = 0.
C8_ConstantSummary_Original ==
    (ret.op = "summary" /\ Len(orig) > 0 /\ AllEqual(orig)) =>
        /\ summ.max = orig[1] /\ summ.min = orig[1] /\ summ.median = orig[1]
        /\ summ.median_abs_dev = D(0)
        /\ summ.median_abs_dev_pct = D(0)

\* C8 amended: Summary of a constant vector of v has max = min = median = v
\* and median_abs_dev = 0; median_abs_dev_pct is 0 when v # 0 and NaN (0/0)
\* when v = 0.
C8_ConstantSummary ==
    (ret.op = "summary" /\ Len(orig) > 0 /\ AllEqual(orig)) =>
        /\ summ.max = orig[1] /\ summ.min = orig[1] /\ summ.median = orig[1]
        /\ summ.median_abs_dev = D(0)
        /\ summ.median_abs_dev_pct = IF orig[1] = D(0) THEN NaN ELSE D(0)

\* C8 witness: Summary was built from three equal non-zero samples
C8_Witness ==
    /\ ret.op = "summary" /\ Len(orig) = 3 /\ AllEqual(orig)
    /\ orig[1] = D(2) /\ summ.median = D(2)
    /\ summ.median_abs_dev_pct = D(0)

\* C9: percentile_of_sorted on an empty vector, or with pct < 0 or
\* pct > 100 on any non-empty vector (a single element included), aborts
\* and returns no value; Summary of an empty vector aborts.
C9_MalformedAborts ==
    /\ (ret.op = "percentile" /\
          (Len(orig) = 0 \/ DLess(pct, D(0)) \/ DLess(D(100), pct)))
            => ret.aborted
    /\ (ret.op = "summary" /\ Len(orig) = 0) => ret.aborted

---------------------------------------------------------------------------
(* Properties of auto_bench *)

InLoop == pc \in {"loop", "collect", "collect5", "check"}

DAbs(a) == Fin(Abs(a.num), a.den)

\* the convergence condition as the specification words it
StatedConvergence ==
    /\ loop_run > LoopMinTicks
    /\ DLess(summ.median_abs_dev_pct, D(1))
    /\ DLess(DAbs(DSub(summ.median, summ5.median)), summ5.median_abs_dev)

\* C1: an iteration stops at the convergence test if and only if its wall
\* time is over 100 ms, summ.median_abs_dev_pct < 1.0 and
\* |summ.median - summ5.median| < summ5.median_abs_dev, and then summ5 is
\* what is returned; an iteration in which summ.median is below summ5.median
\* by more than summ5.median_abs_dev does not stop there.
C1_ConvergenceTest ==
    /\ (pc = "done" /\ outcome = "converged") =>
          (StatedConvergence /\ result = summ5)
    /\ ((pc = "done" /\ outcome = "budget") \/ (pc = "loop" /\ iter > 0)) =>
          ~StatedConvergence

\* C2: the cumulative wall time of the loop starts at zero and grows by
\* each iteration's wall time; the loop never starts another iteration once
\* it is above 3 s, and the budget return (of summ5) is taken only then.
C2_BudgetEscape ==
    /\ InLoop => (total_run = cum_run /\ cum_run <= BudgetTicks)
    /\ (pc = "done" /\ outcome = "budget") =>
          (total_run = cum_run /\ cum_run > BudgetTicks /\ result = summ5)

\* C3: on loop entry n is 1000000 when the calibration batch measured 0 ns
\* per iteration, and otherwise floor(1000000 / max(ns_per_iter, 1)) raised
\* to at least 1; so n is in 1..1000000 and never 0.
C3_EstimatedBatchSize ==
    (pc = "loop" /\ iter = 0) =>
        LET ns == duration_ * TickNs
            q  == 1000000 \div (IF ns < 1 THEN 1 ELSE ns)
            expected == IF ns = 0 THEN 1000000 ELSE IF q < 1 THEN 1 ELSE q
        IN  /\ iterations_ = U64(1)
            /\ ns_per_iter = ns
            /\ n = U64(expected)
            /\ expected \in 1..1000000
            /\ ~IsZero64(n)

\* C3 witness: a calibration call of more than 1 ms, n raised from 0 to 1
C3_Witness ==
    /\ pc = "loop" /\ iter = 0
    /\ duration_ * TickNs > 1000000
    /\ n = U64(1)

\* C10: every iteration of the loop runs 50 batches of n and then 50
\* batches of 5n iterations over a vector of 50 samples, n doubles from one
\* iteration to the next, so that in iteration k the sizes are n0 * 2^k and
\* 5 * n0 * 2^k without 64-bit wrap-around, and every batch has at least one
\* iteration.
C10_BatchSizes ==
    InLoop =>
        /\ Len(samples) = 50 /\ idx <= 50
        /\ exact /\ ~IsZero64(n)
        /\ (pc = "collect" /\ idx > 0) => iterations_ = n
        /\ (pc \in {"collect5", "check"} /\ idx > 0) =>
              /\ iterations_ = Mul64(n, 5)
              /\ Carry64(n, 5) = 0
              /\ ~IsZero64(iterations_)

---------------------------------------------------------------------------
(* Properties of bench_n and the accumulator *)

\* C4: bench_n(iterations, f) invokes f exactly iterations times; with
\* iterations = 0 it never invokes f and ns_per_iter() is 0; with
\* iterations > 0 ns_per_iter() is the measured duration divided by
\* iterations, rounded down.
C4_BenchN ==
    (bpc = "idle" /\ batches > 0) =>
        /\ calls = req
        /\ iterations_ = U64(req)
        /\ duration_ = elapsed
        /\ req = 0 => (calls = 0 /\ ns_per_iter = 0)
        /\ req > 0 => ns_per_iter = (elapsed * TickNs) \div req

\* C4 witness: a batch of zero iterations has run after a batch that took
\* time, and ns_per_iter() is 0
C4_Witness ==
    /\ bpc = "idle" /\ batches = 2 /\ now > 0
    /\ req = 0 /\ calls = 0 /\ ns_per_iter = 0

===========================================================================
